---- MODULE Spec2Model ----
(***************************************************************************)
(* Capture-and-decode control loop of the Camera component                 *)
(* (client/src/components/scanner/Camera.tsx, latest revision, lines       *)
(* 857-1192) together with its Scan Sink (localStorage).                   *)
(*                                                                         *)
(* React semantics kept by the model:                                      *)
(*  - a function created during a render closes over that render's state   *)
(*    values (stream, settings); refs are shared mutable cells;            *)
(*  - a handler runs to its first await atomically; the re-render and the  *)
(*    effects whose dependencies changed run right after it;               *)
(*  - state updates on an unmounted component are ignored;                 *)
(*  - timers fire at their deadline: time does not pass a due timer.       *)
(***************************************************************************)
EXTENDS Integers, Sequences, FiniteSets, TLC

(* ---------------- bounds of the model ---------------- *)
MaxTime == 12000
TickMs == 12000
MaxAttempts == 3
MaxStreams == 2
MaxSubs == 2
MaxScans == 2
\* camera requests and accepted detections of one run, taken together
MaxWork == 3
MaxSettingsChanges == 1
SinkCapacity == 1
MaxRecords == 3
MaxServerTime == 2
MaxLimit == 2
MaxSubmits == 2
MaxShotRuns == 2
MaxShotSaves == 3

(* ---------------- program constants ---------------- *)
DefaultCooldownTime == 3000
VideoLoadTimeout == 10000
StartDelay == 1000

DefaultDataPattern == "^0934[0-9A-E]{28}$"
DEFAULT_SETTINGS == [cooldownTime |-> DefaultCooldownTime, dataPattern |-> DefaultDataPattern]

\* values the settings form may hand over (0..10000 ms, non-empty pattern):
\* one cooldown shorter and one longer than the default
SettingsChoices ==
  { [cooldownTime |-> 1000, dataPattern |-> "^X$"],
    [cooldownTime |-> 5000, dataPattern |-> "^X$"] }
Texts == {"A"}

NoStream == 0
NoControls == 0
NoTimer == 0

\* a field a request body does not carry
Absent == "absent"
\* request bodies sent to POST /api/scans
Bodies ==
  { [content |-> "A", format |-> "PDF417", pattern |-> "^X$"],
    [content |-> "B", format |-> "PDF417", pattern |-> Absent],
    [content |-> "", format |-> "PDF417", pattern |-> Absent],
    [content |-> "A", format |-> Absent, pattern |-> Absent] }
\* what can stand in the cooldown field of the dialog (an input of type
\* number holds "" or a valid number)
CooldownInputs == {"", "1000", "1500.5", "-1", "3000", "10001"}
PatternInputs == {"", "^X$", DefaultDataPattern}
\* useForm({defaultValues: settings}) at the first render: the Camera's
\* DEFAULT_SETTINGS, which carry no flipHorizontal
InitialForm ==
  [cooldownTime |-> "3000", dataPattern |-> DefaultDataPattern,
   flipHorizontal |-> "undefined"]
\* the limit used when the request gives none
DefaultLimit == 10
NoCall == [op |-> "none"]

VARIABLES
  now,                \* wall clock, ms
  cameraApi,          \* navigator.mediaDevices.getUserMedia exists
  mounted,            \* component mounted; videoRef.current is set iff mounted
  hasPermission, isInitializing, stream, settings,   \* Camera state
  isScanning,         \* scanning intent (Home state)
  readerRef,          \* readerRef.current is set
  scanningProcessRef, \* id of the controls held, or NoControls
  cooldownTimerRef,   \* id of the timer held in cooldownTimerRef.current, or NoTimer
  cooldownTimers,     \* pending cooldown setTimeout calls: [id, due]
  isCoolingDownRef,
  srcObject,          \* videoElement.srcObject as assigned by the component
  streams,            \* every MediaStream ever opened: [owner, live, late]
  subs,               \* every decodeFromConstraints call: [st, cStream, cSettings, src, cause]
  startTimers,        \* pending setTimeout(startScanning, 1000) of the scanning effect
  init,               \* the running initializeCamera: [pc, cStream, media, due]
  scans,              \* localStorage 'scans', newest first
  sinkLog,            \* history: accepted detections in order
  errorMsg,           \* last message surfaced through toast/onError
  attempt,            \* history: outcome and stream of the latest initializeCamera
  frame,              \* history: the decode callback run by the last step, if any
  toasts,             \* history: user notifications raised by the last step
  gumCount,           \* camera access requests issued by initializeCamera
  nextTimer, settingsChanges,
  \* the server (server/storage.ts MemStorage and the routes)
  memScans,           \* MemStorage.scans: the Map's entries in insertion order
  currentId,          \* MemStorage.currentId
  serverTime,         \* the server's clock, ms (new Date())
  listMounted,        \* a ScanResult component is mounted
  listScans,          \* ScanResult state `scans`: the list it shows
  \* the settings dialog (ScannerSettings)
  dialogOpen,         \* ScannerSettings state `open`
  form,               \* the form's field values: [cooldownTime, dataPattern, flipHorizontal]
  handed,             \* history: every configuration passed to onSettingsChange, in order
  formOp,             \* history: what the dialog did in the last step
  videoStyle,         \* style.transform of the Camera's <video> for the settings handed over
  \* the single-shot revision of the Camera (a decode saves, then stops scanning)
  shotScanning,       \* prop isScanning
  shotRun,            \* number of runs of the scanning effect so far
  shotMounted,        \* runs of the scanning effect whose closure has isMounted = true
  shotDecoding,       \* runs whose decodeFromVideoDevice is delivering callbacks
  shotPending,        \* saveScan.mutateAsync calls not settled yet (indexes of shotSaved)
  shotSaved,          \* history: every scan handed to saveScan.mutateAsync: [run, content]
  call                \* history: the request handled by the last step and its response

cameraVars == << now, cameraApi, mounted, hasPermission, isInitializing, stream, settings,
           isScanning, readerRef, scanningProcessRef, cooldownTimerRef,
           cooldownTimers, isCoolingDownRef, srcObject, streams, subs, startTimers, init,
           scans, sinkLog, errorMsg, attempt, frame, toasts, gumCount, nextTimer,
           settingsChanges >>
serverVars == << memScans, currentId, serverTime, call >>
listVars == << listMounted, listScans >>
formVars == << dialogOpen, form, handed, formOp, videoStyle >>
shotVars == << shotScanning, shotRun, shotMounted, shotDecoding, shotPending, shotSaved >>
storeVars == << serverVars, listVars, formVars, shotVars >>
vars == << cameraVars, serverVars, listVars, formVars, shotVars >>

\* toast({...}) of the component: one more notification shown to the user
toast(n) == n + 1

\* onError(error): Home.handleError raises a toast of its own
onError(n) == toast(n)

\* no decode callback ran in the last step
NoFrame == [outcome |-> "none", gate |-> FALSE, points |-> << >>, written |-> TRUE]

IdleInit == [pc |-> "idle", cStream |-> NoStream, media |-> NoStream, due |-> NoTimer]

Init ==
  /\ now = 0
  /\ cameraApi \in BOOLEAN
  /\ mounted = TRUE
  /\ hasPermission = FALSE
  /\ isInitializing = FALSE
  /\ stream = NoStream
  /\ settings = DEFAULT_SETTINGS
  /\ isScanning = TRUE
  /\ readerRef = FALSE
  /\ scanningProcessRef = NoControls
  /\ cooldownTimerRef = NoTimer
  /\ cooldownTimers = {}
  /\ isCoolingDownRef = FALSE
  /\ srcObject = NoStream
  /\ streams = << >>
  /\ subs = << >>
  /\ startTimers = {}
  /\ init = IdleInit
  /\ scans = << >>
  /\ sinkLog = << >>
  /\ errorMsg = "none"
  /\ attempt = [outcome |-> "none", media |-> NoStream]
  /\ frame = NoFrame
  /\ toasts = 0
  /\ gumCount = 0
  /\ nextTimer = 1
  /\ settingsChanges = 0
  /\ memScans = << >>
  /\ currentId = 1
  /\ serverTime = 0
  /\ call = NoCall
  /\ listMounted = TRUE
  /\ listScans = << >>
  /\ dialogOpen = FALSE
  /\ form = InitialForm
  /\ handed = << >>
  /\ formOp = "none"
  /\ videoStyle = "none"
  /\ shotScanning = FALSE
  /\ shotRun = 0
  /\ shotMounted = {}
  /\ shotDecoding = {}
  /\ shotPending = {}
  /\ shotSaved = << >>

(* ---------------- resources touched by teardown ---------------- *)
\* the refs and handles stopScanning / cleanupResources work on, as one record
Res ==
  [ stream |-> stream, srcObject |-> srcObject, readerRef |-> readerRef,
    scanningProcessRef |-> scanningProcessRef, cooldownTimerRef |-> cooldownTimerRef,
    cooldownTimers |-> cooldownTimers,
    isCoolingDownRef |-> isCoolingDownRef, streams |-> streams, subs |-> subs ]

\* MediaStream.getTracks().forEach(track => track.stop())
StopTracks(ss, s) ==
  IF s \in DOMAIN ss THEN [ss EXCEPT ![s].live = FALSE] ELSE ss

\* IScannerControls.stop(): the subscription ends and the decoder releases
\* the stream it opened for it
ControlsStop(r, k) ==
  [r EXCEPT !.subs = [@ EXCEPT ![k].st = "stopped"],
            !.streams = StopTracks(@, r.subs[k].src)]

\* faulty variant: stopping the decoder also resets the cooldown gate
stopScanningResetsGate(r) ==
  LET r1 == IF r.scanningProcessRef # NoControls
              THEN [ControlsStop(r, r.scanningProcessRef)
                      EXCEPT !.scanningProcessRef = NoControls]
              ELSE r
  IN [r1 EXCEPT !.cooldownTimers = {t \in @ : t.id # r.cooldownTimerRef},
                !.cooldownTimerRef = NoTimer,
                !.isCoolingDownRef = FALSE]

stopScanning(r) ==
  IF r.scanningProcessRef # NoControls
    THEN [ControlsStop(r, r.scanningProcessRef) EXCEPT !.scanningProcessRef = NoControls]
    ELSE r

\* faulty variant: the timer is not cancelled
clearTimeoutKeepsTimer(timers, id) == timers

\* clearTimeout(id): the timer, if still pending, never fires
clearTimeout(timers, id) == {t \in timers : t.id # id}

\* cleanupResources of a render whose `stream` was cStream; videoSet is
\* videoRef.current at the call, isMounted decides whether setStream applies
cleanupResources(r, cStream, videoSet, isMounted) ==
  LET r1 == stopScanning(r)
      r2 == IF cStream # NoStream
              THEN [r1 EXCEPT !.streams = StopTracks(@, cStream),
                              !.stream = IF isMounted THEN NoStream ELSE @]
              ELSE r1
      r3 == IF videoSet THEN [r2 EXCEPT !.srcObject = NoStream] ELSE r2
  IN [r3 EXCEPT !.readerRef = FALSE,
                !.cooldownTimers = clearTimeout(@, r3.cooldownTimerRef),
                !.cooldownTimerRef = NoTimer,
                !.isCoolingDownRef = FALSE]

\* write a resource record back to the variables
SetRes(r) ==
  /\ stream' = r.stream
  /\ srcObject' = r.srcObject
  /\ readerRef' = r.readerRef
  /\ scanningProcessRef' = r.scanningProcessRef
  /\ cooldownTimerRef' = r.cooldownTimerRef
  /\ cooldownTimers' = r.cooldownTimers
  /\ isCoolingDownRef' = r.isCoolingDownRef
  /\ streams' = r.streams
  /\ subs' = r.subs

(* ---------------- decoder start and the effects ---------------- *)
\* startScanning of a render whose stream/settings were cStream/cSettings, up
\* to its await: decodeFromConstraints is called and its promise is pending
\* (cause records which call site started it)
startScanning(r, cStream, cSettings, videoSet, cause) ==
  IF ~videoSet \/ ~r.readerRef \/ cStream = NoStream
    THEN r
    ELSE [r EXCEPT !.subs = Append(@, [st |-> "starting", cStream |-> cStream,
                                       cSettings |-> cSettings, src |-> NoStream,
                                       cause |-> cause])]

\* faulty variant: the effect starts the decoder without looking at the permission
scanningEffectIgnoresPermission(hp, st, isc, setts, r, timers) ==
  IF st = NoStream
    THEN [r |-> r, timers |-> timers]
    ELSE IF isc
      THEN [r |-> r,
            timers |-> timers \cup {[id |-> nextTimer, due |-> now + StartDelay,
                                     cStream |-> st, cSettings |-> setts,
                                     cause |-> IF hasPermission THEN "toggle" ELSE "init"]}]
      ELSE [r |-> stopScanning(r), timers |-> timers]

\* the "Handle scanning state changes" effect of a render with the given state
scanningEffect(hp, st, isc, setts, r, timers) ==
  IF ~hp \/ st = NoStream
    THEN [r |-> r, timers |-> timers]
    ELSE IF isc
      THEN [r |-> r,
            timers |-> timers \cup {[id |-> nextTimer, due |-> now + StartDelay,
                                     cStream |-> st, cSettings |-> setts,
                                     \* history: first start or a later resume
                                     cause |-> IF hasPermission THEN "toggle" ELSE "init"]}]
      ELSE [r |-> stopScanning(r), timers |-> timers]

\* commit of a render: the scanning effect runs iff one of its dependencies changed
Commit(hp, isc, r) ==
  LET changed == hp # hasPermission \/ isc # isScanning \/ r.stream # stream
      e == IF mounted /\ changed
             THEN scanningEffect(hp, r.stream, isc, settings, r, startTimers)
             ELSE [r |-> r, timers |-> startTimers]
  IN /\ hasPermission' = hp
     /\ isScanning' = isc
     /\ SetRes(e.r)
     /\ startTimers' = e.timers
     /\ nextTimer' = IF e.timers # startTimers THEN nextTimer + 1 ELSE nextTimer

\* room for one more decoder start (every pending delayed start may take one)
SubBudget == Len(subs) + Cardinality(startTimers) < MaxSubs

(* ---------------- initializeCamera ---------------- *)
\* catch + finally of initializeCamera, entered with resources r
InitCatch(r, msg) ==
  /\ Commit(IF mounted THEN FALSE ELSE hasPermission, isScanning,
            cleanupResources(r, init.cStream, mounted, mounted))
  /\ errorMsg' = msg
  /\ toasts' = onError(toast(0))
  \* history; r.streams # streams iff the stream was delivered in this very step
  /\ attempt' = [outcome |-> IF r.streams # streams \/ init.pc \in {"video", "play"}
                                THEN "failedAfterStream" ELSE "denied",
                  media |-> IF r.streams # streams THEN Len(r.streams) ELSE init.media]
  /\ isInitializing' = IF mounted THEN FALSE ELSE isInitializing
  /\ init' = IdleInit

\* handleCameraButton, first branch: initializeCamera up to await getUserMedia
EnableCamera ==
  /\ mounted /\ ~hasPermission /\ ~isInitializing
  /\ gumCount < MaxAttempts
  /\ now + VideoLoadTimeout + StartDelay <= MaxTime
  /\ IF cameraApi
       THEN /\ Commit(hasPermission, isScanning,
                      cleanupResources(Res, stream, TRUE, TRUE))
            /\ isInitializing' = TRUE
            /\ init' = [pc |-> "gum", cStream |-> stream, media |-> NoStream, due |-> NoTimer]
            /\ gumCount' = gumCount + 1
            /\ attempt' = [outcome |-> "running", media |-> NoStream]
            /\ toasts' = 0
            /\ UNCHANGED errorMsg
       ELSE /\ init' = IdleInit
            /\ Commit(FALSE, isScanning, cleanupResources(Res, stream, TRUE, TRUE))
            /\ errorMsg' = "Camera API not supported in this browser"
            /\ toasts' = onError(toast(0))
            /\ attempt' = [outcome |-> "unsupported", media |-> NoStream]
            /\ UNCHANGED << isInitializing, gumCount >>
  /\ frame' = NoFrame
  /\ UNCHANGED << now, cameraApi, mounted, settings, scans, sinkLog,
                  settingsChanges >>
  /\ UNCHANGED storeVars

\* getUserMedia resolves: the stream exists from here on; lines 974-1006
SessionStreams == {s \in DOMAIN streams : streams[s].owner = "session"}

\* faulty variant: permission and reader are set as soon as the stream is attached
GetUserMediaResolveGrantsEarly ==
  /\ init.pc = "gum"
  /\ Cardinality(SessionStreams) < MaxStreams
  \* the video-ready timeout armed here falls within the horizon
  /\ mounted => now + VideoLoadTimeout <= MaxTime
  /\ LET s == Len(streams) + 1
         r == [Res EXCEPT !.streams = Append(@, [owner |-> "session", live |-> TRUE,
                                                 late |-> ~mounted])]
     IN IF ~mounted
          THEN InitCatch(r, "Video element lost during initialization")
          ELSE /\ Commit(TRUE, isScanning,
                         [r EXCEPT !.stream = s, !.srcObject = s, !.readerRef = TRUE])
               /\ init' = [init EXCEPT !.pc = "video", !.media = s,
                                       !.due = now + VideoLoadTimeout]
               /\ attempt' = [attempt EXCEPT !.media = s]
               /\ toasts' = 0
               /\ UNCHANGED << isInitializing, errorMsg >>
  /\ frame' = NoFrame
  /\ UNCHANGED << now, cameraApi, mounted, settings, scans, sinkLog, gumCount,
                  settingsChanges >>
  /\ UNCHANGED storeVars

\* getUserMedia resolves, up to the wait for the video
GetUserMediaResolve ==
  /\ init.pc = "gum"
  /\ Cardinality(SessionStreams) < MaxStreams
  \* the video-ready timeout armed here falls within the horizon
  /\ mounted => now + VideoLoadTimeout <= MaxTime
  /\ LET s == Len(streams) + 1
         r == [Res EXCEPT !.streams = Append(@, [owner |-> "session", live |-> TRUE,
                                                 late |-> ~mounted])]
     IN IF ~mounted
          THEN InitCatch(r, "Video element lost during initialization")
          ELSE /\ Commit(hasPermission, isScanning,
                         [r EXCEPT !.stream = s, !.srcObject = s])
               /\ init' = [init EXCEPT !.pc = "video", !.media = s,
                                       !.due = now + VideoLoadTimeout]
               /\ attempt' = [attempt EXCEPT !.media = s]
               /\ toasts' = 0
               /\ UNCHANGED << isInitializing, errorMsg >>
  /\ frame' = NoFrame
  /\ UNCHANGED << now, cameraApi, mounted, settings, scans, sinkLog, gumCount,
                  settingsChanges >>
  /\ UNCHANGED storeVars

\* getUserMedia rejects (permission denied, no device)
GetUserMediaReject ==
  /\ init.pc = "gum"
  /\ InitCatch(Res, "Permission denied")
  /\ frame' = NoFrame
  /\ UNCHANGED << now, cameraApi, mounted, settings, scans, sinkLog, gumCount,
                  settingsChanges >>
  /\ UNCHANGED storeVars

\* 'loadedmetadata' fires before the timeout: handleVideoReady up to await play()
VideoLoadedMetadata ==
  /\ init.pc = "video"
  /\ init' = [init EXCEPT !.pc = "play", !.due = NoTimer]
  /\ frame' = NoFrame
  /\ toasts' = 0
  /\ UNCHANGED << now, cameraApi, mounted, hasPermission, isInitializing, stream,
                  settings, isScanning, readerRef, scanningProcessRef,
                  cooldownTimerRef, cooldownTimers, isCoolingDownRef, srcObject,
                  streams, subs, startTimers, scans, sinkLog, errorMsg, attempt, gumCount,
                  nextTimer, settingsChanges >>
  /\ UNCHANGED storeVars

\* the 10000 ms timer rejects the video-ready wait
VideoTimeout ==
  /\ init.pc = "video"
  /\ init.due <= now
  /\ InitCatch(Res, "Video loading timed out")
  /\ frame' = NoFrame
  /\ UNCHANGED << now, cameraApi, mounted, settings, scans, sinkLog, gumCount,
                  settingsChanges >>
  /\ UNCHANGED storeVars

\* play() rejects
VideoPlayReject ==
  /\ init.pc = "play"
  /\ InitCatch(Res, "Failed to access camera")
  /\ frame' = NoFrame
  /\ UNCHANGED << now, cameraApi, mounted, settings, scans, sinkLog, gumCount,
                  settingsChanges >>
  /\ UNCHANGED storeVars

\* play() resolves: lines 1008-1016 and finally
VideoPlayResolve ==
  /\ init.pc = "play"
  /\ Commit(IF mounted THEN TRUE ELSE hasPermission,
            IF mounted THEN TRUE ELSE isScanning,
            [Res EXCEPT !.readerRef = TRUE])
  /\ isInitializing' = IF mounted THEN FALSE ELSE isInitializing
  /\ init' = IdleInit
  /\ attempt' = [attempt EXCEPT !.outcome = "ok"]
  /\ frame' = NoFrame
  /\ toasts' = 0
  /\ UNCHANGED << now, cameraApi, mounted, settings, scans, sinkLog, errorMsg,
                  gumCount, settingsChanges >>
  /\ UNCHANGED storeVars

(* ---------------- user intent and settings ---------------- *)
\* handleCameraButton, second branch: setIsScanning(!isScanning)
ToggleScanning ==
  /\ mounted /\ ~(~hasPermission /\ ~isInitializing)
  /\ hasPermission /\ stream # NoStream
  /\ isScanning \/ (SubBudget /\ now + StartDelay <= MaxTime)
  /\ Commit(hasPermission, ~isScanning, Res)
  /\ frame' = NoFrame
  /\ toasts' = 0
  /\ UNCHANGED << now, cameraApi, mounted, isInitializing, settings, init, scans,
                  sinkLog, errorMsg, attempt, gumCount, settingsChanges >>
  /\ UNCHANGED storeVars

\* the settings effect of the render that follows setSettings(s)
settingsEffect(s, r) ==
  IF isScanning /\ hasPermission
    THEN startScanning(stopScanning(r), stream, s, mounted, "settings")
    ELSE r

\* ScannerSettings hands a validated configuration to onSettingsChange
SettingsChange(s) ==
  /\ mounted
  /\ settingsChanges < MaxSettingsChanges
  /\ (isScanning /\ hasPermission) => SubBudget
  /\ settings' = s
  /\ settingsChanges' = settingsChanges + 1
  /\ SetRes(settingsEffect(s, Res))
  /\ frame' = NoFrame
  /\ toasts' = 0
  /\ UNCHANGED << now, cameraApi, mounted, hasPermission, isInitializing,
                  isScanning, startTimers, init, scans, sinkLog, errorMsg,
                  attempt, gumCount, nextTimer >>
  /\ UNCHANGED storeVars

\* the delayed start scheduled by the scanning effect fires
StartTimerFire(t) ==
  /\ t \in startTimers
  /\ t.due <= now
  /\ startTimers' = startTimers \ {t}
  /\ SetRes(startScanning(Res, t.cStream, t.cSettings, mounted, t.cause))
  /\ frame' = NoFrame
  /\ toasts' = 0
  /\ UNCHANGED << now, cameraApi, mounted, hasPermission, isInitializing, settings,
                  isScanning, init, scans, sinkLog, errorMsg, attempt, gumCount, nextTimer,
                  settingsChanges >>
  /\ UNCHANGED storeVars

(* ---------------- decoder ---------------- *)
\* decodeFromConstraints resolves: the decoder has opened a stream for the
\* given constraints and scans it; line 1065 stores the controls
DecoderStartResolve(k) ==
  /\ k \in DOMAIN subs
  /\ subs[k].st = "starting"
  /\ streams' = Append(streams, [owner |-> "decoder", live |-> TRUE, late |-> ~mounted])
  /\ subs' = [subs EXCEPT ![k].st = "active", ![k].src = Len(streams) + 1]
  /\ scanningProcessRef' = k
  /\ frame' = NoFrame
  /\ toasts' = 0
  /\ UNCHANGED << now, cameraApi, mounted, hasPermission, isInitializing, stream,
                  settings, isScanning, readerRef, cooldownTimerRef, cooldownTimers,
                  isCoolingDownRef, srcObject, startTimers, init, scans, sinkLog,
                  errorMsg, attempt, gumCount, nextTimer, settingsChanges >>
  /\ UNCHANGED storeVars

\* decodeFromConstraints rejects: catch of startScanning
DecoderStartReject(k) ==
  /\ k \in DOMAIN subs
  /\ subs[k].st = "starting"
  /\ subs' = [subs EXCEPT ![k].st = "failed"]
  /\ errorMsg' = "Failed to start scanning"
  /\ toasts' = onError(0)
  /\ frame' = NoFrame
  /\ UNCHANGED << now, cameraApi, mounted, hasPermission, isInitializing, stream,
                  settings, isScanning, readerRef, scanningProcessRef,
                  cooldownTimerRef, cooldownTimers, isCoolingDownRef, srcObject,
                  streams, startTimers, init, scans, sinkLog, attempt, gumCount, nextTimer,
                  settingsChanges >>
  /\ UNCHANGED storeVars

\* faulty variant: the record carries the pattern where the text belongs
saveScanPatternAsContent(list, scan) ==
  << [content |-> scan.pattern, format |-> scan.format, pattern |-> scan.pattern,
      id |-> now, timestamp |-> now] >> \o list

\* saveScan.mutateAsync: the new record goes to the head of localStorage 'scans'
saveScan(list, scan) ==
  << [content |-> scan.content, format |-> scan.format, pattern |-> scan.pattern,
      id |-> now, timestamp |-> now] >> \o list

\* faulty variant: single-shot, the accept also stops the decoder
startCooldownSingleShot(r, cooldownTime, id) ==
  LET r1 == IF r.scanningProcessRef # NoControls
              THEN [ControlsStop(r, r.scanningProcessRef)
                      EXCEPT !.scanningProcessRef = NoControls]
              ELSE r
  IN [r1 EXCEPT !.cooldownTimers = {t \in @ : t.id # r.cooldownTimerRef}
                                     \cup {[id |-> id, due |-> now + cooldownTime]},
                !.cooldownTimerRef = id,
                !.isCoolingDownRef = TRUE]

\* startCooldown of a render whose settings.cooldownTime was cooldownTime;
\* id names the timer setTimeout returns
startCooldown(r, cooldownTime, id) ==
  [r EXCEPT !.cooldownTimers = clearTimeout(@, r.cooldownTimerRef)
                                 \cup {[id |-> id, due |-> now + cooldownTime]},
            !.cooldownTimerRef = id,
            !.isCoolingDownRef = TRUE]

\* what the decoder may hand to the callback: an error ("error": nothing found
\* in this frame, "lost": the stream or device is gone), no result ("empty")
\* or a decoded text
Outcomes == Texts \cup {"error", "lost", "empty"}

\* result points a decoded result may carry (Result.getResultPoints()), in
\* the coordinates of the displayed video: a single point, two around
\* (150,120), two around (50,50)
ResultPoints ==
  { << [x |-> 150, y |-> 120] >>,
    << [x |-> 140, y |-> 110], [x |-> 160, y |-> 130] >>,
    << [x |-> 40, y |-> 50], [x |-> 60, y |-> 50] >> }

\* the rectangle ScannerOverlay.getScanArea() returns for the target region
ScanArea == [left |-> 100, top |-> 100, width |-> 200, height |-> 100]

\* faulty variant: a decoder error is reported to the user on every frame
DecodeCallbackReportsError(k, outcome, pts, written) ==
  /\ k \in DOMAIN subs
  /\ subs[k].st = "active"
  \* only a decoded result has points; only an accepted one is written, and
  \* the storage refuses a write only when it holds SinkCapacity records
  /\ pts \in (IF outcome \in Texts THEN ResultPoints ELSE {<< >>})
  /\ (outcome \notin Texts \/ isCoolingDownRef \/ Len(scans) < SinkCapacity) => written
  /\ frame' = [outcome |-> outcome, gate |-> isCoolingDownRef, points |-> pts,
               written |-> written]
  /\ toasts' = IF outcome \in {"error", "lost"} THEN onError(0) ELSE 0
  /\ errorMsg' = IF outcome \in {"error", "lost"} THEN "Failed to scan" ELSE errorMsg
  /\ IF outcome \in Texts /\ ~isCoolingDownRef
       THEN /\ Len(sinkLog) < MaxScans
            /\ gumCount + Len(sinkLog) < MaxWork
            /\ SetRes(startCooldown(Res, subs[k].cSettings.cooldownTime,
                                    Len(sinkLog) + 1))
            \* a write localStorage refuses rejects the promise of saveScan,
            \* which line 1060 hands to console.error
            /\ scans' = IF written
                          THEN saveScan(scans, [content |-> outcome, format |-> "PDF417",
                                                pattern |-> subs[k].cSettings.dataPattern])
                          ELSE scans
            /\ sinkLog' = Append(sinkLog,
                  [t |-> now, d |-> settings.cooldownTime,
                   armed |-> subs[k].cSettings.cooldownTime, content |-> outcome,
                   pattern |-> subs[k].cSettings.dataPattern, sub |-> k,
                   disposed |-> ~mounted, intent |-> isScanning])
       ELSE UNCHANGED << stream, srcObject, readerRef, scanningProcessRef,
                         cooldownTimerRef, cooldownTimers, isCoolingDownRef,
                         streams, subs, scans, sinkLog >>
  /\ UNCHANGED << now, cameraApi, mounted, hasPermission, isInitializing,
                  settings, isScanning, startTimers, init, attempt,
                  gumCount, nextTimer, settingsChanges >>
  /\ UNCHANGED storeVars

\* the decode callback of subscription k
DecodeCallback(k, outcome, pts, written) ==
  /\ k \in DOMAIN subs
  /\ subs[k].st = "active"
  \* only a decoded result has points; only an accepted one is written, and
  \* the storage refuses a write only when it holds SinkCapacity records
  /\ pts \in (IF outcome \in Texts THEN ResultPoints ELSE {<< >>})
  /\ (outcome \notin Texts \/ isCoolingDownRef \/ Len(scans) < SinkCapacity) => written
  \* history: what was delivered and whether the gate was armed
  /\ frame' = [outcome |-> outcome, gate |-> isCoolingDownRef, points |-> pts,
               written |-> written]
  /\ toasts' = 0
  /\ IF outcome \in Texts /\ ~isCoolingDownRef
       THEN /\ Len(sinkLog) < MaxScans
            /\ gumCount + Len(sinkLog) < MaxWork
            /\ SetRes(startCooldown(Res, subs[k].cSettings.cooldownTime,
                                    Len(sinkLog) + 1))
            \* a write localStorage refuses rejects the promise of saveScan,
            \* which line 1060 hands to console.error
            /\ scans' = IF written
                          THEN saveScan(scans, [content |-> outcome, format |-> "PDF417",
                                                pattern |-> subs[k].cSettings.dataPattern])
                          ELSE scans
            /\ sinkLog' = Append(sinkLog,
                  [t |-> now, d |-> settings.cooldownTime,
                   armed |-> subs[k].cSettings.cooldownTime, content |-> outcome,
                   pattern |-> subs[k].cSettings.dataPattern, sub |-> k,
                   disposed |-> ~mounted, intent |-> isScanning])
       ELSE UNCHANGED << stream, srcObject, readerRef, scanningProcessRef,
                         cooldownTimerRef, cooldownTimers, isCoolingDownRef,
                         streams, subs, scans, sinkLog >>
  /\ UNCHANGED << now, cameraApi, mounted, hasPermission, isInitializing,
                  settings, isScanning, startTimers, init, errorMsg, attempt,
                  gumCount, nextTimer, settingsChanges >>
  /\ UNCHANGED storeVars

\* faulty variant: the timer callback leaves the cooldown flag set
CooldownExpireKeepsFlag(t) ==
  /\ t \in cooldownTimers
  /\ t.due <= now
  /\ cooldownTimers' = cooldownTimers \ {t}
  /\ isCoolingDownRef' = isCoolingDownRef
  /\ cooldownTimerRef' = NoTimer
  /\ frame' = NoFrame
  /\ toasts' = 0
  /\ UNCHANGED << now, cameraApi, mounted, hasPermission, isInitializing, stream,
                  settings, isScanning, readerRef, scanningProcessRef, srcObject,
                  streams, subs, startTimers, init, scans, sinkLog, errorMsg,
                  attempt, gumCount, nextTimer, settingsChanges >>
  /\ UNCHANGED storeVars

\* the cooldown timer callback (lines 927-931)
CooldownExpire(t) ==
  /\ t \in cooldownTimers
  /\ t.due <= now
  /\ cooldownTimers' = cooldownTimers \ {t}
  /\ isCoolingDownRef' = FALSE
  /\ cooldownTimerRef' = NoTimer
  /\ frame' = NoFrame
  /\ toasts' = 0
  /\ UNCHANGED << now, cameraApi, mounted, hasPermission, isInitializing, stream,
                  settings, isScanning, readerRef, scanningProcessRef, srcObject,
                  streams, subs, startTimers, init, scans, sinkLog, errorMsg,
                  attempt, gumCount, nextTimer, settingsChanges >>
  /\ UNCHANGED storeVars

(* ---------------- dispose ---------------- *)
\* the cleanup registered by the first render's effect: its cleanupResources
\* closes over the first render's stream (null); videoRef is already detached
Unmount ==
  /\ mounted
  /\ mounted' = FALSE
  /\ SetRes(cleanupResources(Res, NoStream, FALSE, FALSE))
  /\ frame' = NoFrame
  /\ toasts' = 0
  /\ UNCHANGED << now, cameraApi, hasPermission, isInitializing, settings,
                  isScanning, startTimers, init, scans, sinkLog, errorMsg,
                  attempt, gumCount, nextTimer, settingsChanges >>
  /\ UNCHANGED storeVars

(* ---------------- time ---------------- *)
Deadlines ==
  {t.due : t \in startTimers} \cup {t.due : t \in cooldownTimers}
    \cup (IF init.pc = "video" THEN {init.due} ELSE {})

Min(S) == CHOOSE x \in S : \A y \in S : x <= y

Tick ==
  /\ now < MaxTime
  /\ \A d \in Deadlines : d > now
  /\ now' = Min({now + TickMs, MaxTime} \cup Deadlines)
  /\ frame' = NoFrame
  /\ toasts' = 0
  /\ UNCHANGED << cameraApi, mounted, hasPermission, isInitializing, stream, settings,
                  isScanning, readerRef, scanningProcessRef, cooldownTimerRef,
                  cooldownTimers, isCoolingDownRef, srcObject, streams, subs,
                  startTimers, init, scans, sinkLog, errorMsg, attempt, gumCount, nextTimer,
                  settingsChanges >>
  /\ UNCHANGED storeVars

Next ==
  \/ EnableCamera
  \/ GetUserMediaResolve
  \/ GetUserMediaReject
  \/ VideoLoadedMetadata
  \/ VideoTimeout
  \/ VideoPlayReject
  \/ VideoPlayResolve
  \/ ToggleScanning
  \/ \E s \in SettingsChoices : SettingsChange(s)
  \/ \E t \in startTimers : StartTimerFire(t)
  \/ \E k \in 1..MaxSubs : DecoderStartResolve(k)
  \/ \E k \in 1..MaxSubs : DecoderStartReject(k)
  \/ \E k \in 1..MaxSubs, o \in Outcomes, p \in ResultPoints \cup {<< >>},
          w \in BOOLEAN :
       DecodeCallback(k, o, p, w)
  \/ \E t \in cooldownTimers : CooldownExpire(t)
  \/ Unmount
  \/ Tick

Spec == Init /\ [][Next]_vars

\* a timer that is due fires (setTimeout), and time passes while none is due
TimersFire ==
  \/ VideoTimeout
  \/ \E t \in startTimers : StartTimerFire(t)
  \/ \E t \in cooldownTimers : CooldownExpire(t)

\* the scheduling the program can rely on: the clock and its own timers; when
\* getUserMedia, play() or the decoder settle is up to the browser and the user
FairSpec == Spec /\ WF_vars(Tick) /\ WF_vars(TimersFire)

TypeOK ==
  /\ now \in 0..MaxTime
  /\ stream \in 0..Len(streams)
  /\ scanningProcessRef \in 0..Len(subs)
  /\ Len(subs) <= MaxSubs
  /\ mounted /\ ~isInitializing => init.pc = "idle"
  /\ Cardinality(cooldownTimers) <= 1

(* ---------------- the server: MemStorage and the routes ---------------- *)
\* insertScanSchema.safeParse(body): a body is valid when it carries a
\* non-empty content and a format; the parsed data are the body's fields
safeParse(body) ==
  [success |-> body.content # "" /\ body.format # Absent, data |-> body]

\* Map.set(key, value): replaces the entry of an existing key in place,
\* appends a new entry otherwise
MapSet(m, id, v) ==
  IF \E i \in DOMAIN m : m[i].id = id
    THEN [i \in DOMAIN m |-> IF m[i].id = id THEN v ELSE m[i]]
    ELSE Append(m, v)

\* faulty variant: the id counter is read but not advanced
createScanSameId(st, insertScan, t) ==
  LET id == st.currentId
      scan == [id |-> id, content |-> insertScan.content, format |-> insertScan.format,
               pattern |-> insertScan.pattern, timestamp |-> t]
  IN [scans |-> MapSet(st.scans, id, scan), currentId |-> st.currentId, scan |-> scan]

\* MemStorage.createScan on storage st at server time t: the new storage
\* state and the record returned
createScan(st, insertScan, t) ==
  LET id == st.currentId
      scan == [id |-> id, content |-> insertScan.content, format |-> insertScan.format,
               pattern |-> insertScan.pattern, timestamp |-> t]
  IN [scans |-> MapSet(st.scans, id, scan), currentId |-> st.currentId + 1, scan |-> scan]

\* Array.prototype.sort with (a, b) => b.timestamp - a.timestamp: descending
\* by timestamp, stable, so records of one timestamp keep their Map order
RECURSIVE SortByTimestampDesc(_)
SortByTimestampDesc(s) ==
  IF s = << >>
    THEN << >>
    ELSE LET x == s[Len(s)]
             t == SortByTimestampDesc(SubSeq(s, 1, Len(s) - 1))
             p == Cardinality({i \in DOMAIN t : t[i].timestamp >= x.timestamp})
         IN SubSeq(t, 1, p) \o << x >> \o SubSeq(t, p + 1, Len(t))

\* MemStorage.getRecentScans(limit), limit >= 0
getRecentScans(m, limit) ==
  LET sorted == SortByTimestampDesc(m)
  IN SubSeq(sorted, 1, IF limit < Len(sorted) THEN limit ELSE Len(sorted))

\* Number(req.query.limit) || 10: a missing limit (NaN) and 0 both give 10
LimitOf(q) == IF q.given /\ q.n # 0 THEN q.n ELSE DefaultLimit

\* faulty variant: the record is stored before the body is validated
PostScansStoresFirst(body) ==
  /\ currentId <= MaxRecords
  /\ LET result == safeParse(body)
         c == createScan([scans |-> memScans, currentId |-> currentId], result.data,
                         serverTime)
     IN /\ memScans' = c.scans
        /\ currentId' = c.currentId
        /\ call' = IF ~result.success
                     THEN [op |-> "create", body |-> body, status |-> 400,
                           json |-> [error |-> "Invalid scan data"]]
                     ELSE [op |-> "create", body |-> body, status |-> 200, json |-> c.scan]
  /\ UNCHANGED << serverTime, cameraVars, listVars, formVars, shotVars >>

\* POST /api/scans
PostScans(body) ==
  \* at most MaxRecords records are ever created
  /\ safeParse(body).success => currentId <= MaxRecords
  /\ LET result == safeParse(body)
         c == createScan([scans |-> memScans, currentId |-> currentId], result.data,
                         serverTime)
     IN IF ~result.success
          THEN /\ call' = [op |-> "create", body |-> body, status |-> 400,
                           json |-> [error |-> "Invalid scan data"]]
               /\ UNCHANGED << memScans, currentId >>
          ELSE /\ memScans' = c.scans
               /\ currentId' = c.currentId
               /\ call' = [op |-> "create", body |-> body, status |-> 200, json |-> c.scan]
  /\ UNCHANGED << serverTime, cameraVars, listVars, formVars, shotVars >>

\* GET /api/scans/recent, with or without ?limit=n
GetScansRecent(q) ==
  /\ call' = [op |-> "list", query |-> q, status |-> 200,
              json |-> getRecentScans(memScans, LimitOf(q))]
  /\ UNCHANGED << memScans, currentId, serverTime, cameraVars, listVars, formVars, shotVars >>

\* the server's clock advances by a millisecond
ServerClock ==
  /\ serverTime < MaxServerTime
  /\ serverTime' = serverTime + 1
  /\ call' = NoCall
  /\ UNCHANGED << memScans, currentId, cameraVars, listVars, formVars, shotVars >>

\* storage.clearScans(): removes all stored scans; the id counter is kept
storageClearScans(st) == [scans |-> << >>, currentId |-> st.currentId]

\* faulty variant: the route answers without calling the storage
PostScansClearAnswersOnly ==
  /\ call' = [op |-> "clear", status |-> 200,
              json |-> [message |-> "Scans cleared successfully"]]
  /\ UNCHANGED << memScans, currentId >>
  /\ UNCHANGED << serverTime, cameraVars, listVars, formVars, shotVars >>

\* POST /api/scans/clear
PostScansClear ==
  /\ LET c == storageClearScans([scans |-> memScans, currentId |-> currentId])
     IN /\ memScans' = c.scans
        /\ currentId' = c.currentId
  /\ call' = [op |-> "clear", status |-> 200,
              json |-> [message |-> "Scans cleared successfully"]]
  /\ UNCHANGED << serverTime, cameraVars, listVars, formVars, shotVars >>

Queries == {[given |-> FALSE, n |-> 0]} \cup {[given |-> TRUE, n |-> n] : n \in 0..MaxLimit}

ServerNext ==
  \/ \E b \in Bodies : PostScans(b)
  \/ \E q \in Queries : GetScansRecent(q)
  \/ PostScansClear
  \/ ServerClock

ServerSpec == Init /\ [][ServerNext]_vars

(* ---------------- the list of recent scans (ScanResult) ---------------- *)
\* the Camera state and refs a step of the list leaves alone
sessionVars == << cameraApi, mounted, hasPermission, isInitializing, stream, settings,
                  isScanning, readerRef, scanningProcessRef, cooldownTimerRef,
                  cooldownTimers, isCoolingDownRef, srcObject, streams, subs,
                  startTimers, init, sinkLog, errorMsg, attempt, frame, toasts,
                  gumCount, nextTimer, settingsChanges >>

\* localStorage.getItem('scans') parsed by the mount effect: the stored list,
\* or the initial state [] when the key is absent
ScanResultMount ==
  /\ listMounted' = TRUE
  /\ listScans' = IF scans # << >> THEN scans ELSE << >>
  /\ call' = [op |-> "mountList"]
  /\ UNCHANGED << now, scans, sessionVars, memScans, currentId, serverTime, formVars, shotVars >>

\* faulty variant: the list is emptied on screen, the stored item is kept
clearScansStateOnly ==
  /\ listMounted /\ Len(listScans) > 0
  /\ listScans' = << >>
  /\ call' = [op |-> "clearList"]
  /\ UNCHANGED << now, scans, listMounted, sessionVars, memScans, currentId, serverTime, formVars, shotVars >>

\* ScanResult.clearScans, reachable through the button shown while the list
\* on screen is not empty: localStorage.removeItem('scans'); setScans([])
clearScans ==
  /\ listMounted /\ Len(listScans) > 0
  /\ scans' = << >>
  /\ listScans' = << >>
  /\ call' = [op |-> "clearList"]
  /\ UNCHANGED << now, listMounted, sessionVars, memScans, currentId, serverTime, formVars, shotVars >>

\* an accepted detection is written by the Camera's saveScan at time `now`;
\* the list on screen is not told (nothing listens for 'scanSaved')
SinkSave(text, setts) ==
  /\ Len(scans) < MaxScans
  /\ scans' = saveScan(scans, [content |-> text, format |-> "PDF417",
                               pattern |-> setts.dataPattern])
  /\ call' = [op |-> "save"]
  /\ UNCHANGED << now, listVars, sessionVars, memScans, currentId, serverTime, formVars, shotVars >>

\* the scan stores: the server's routes, and localStorage with its list
StoreNext ==
  \/ ServerNext
  \/ ScanResultMount
  \/ clearScans
  \/ \E t \in Texts : SinkSave(t, DEFAULT_SETTINGS)
  \/ Tick

StoreSpec == Init /\ [][StoreNext]_vars

ServerTypeOK ==
  /\ currentId \in 1..(MaxRecords + 1)
  /\ serverTime \in 0..MaxServerTime
  /\ Len(memScans) <= MaxRecords

(* ---------------- the settings dialog (ScannerSettings) ---------------- *)
\* Number(text) as z.coerce.number() computes it, in tenths of a millisecond
NumberTenths(text) ==
  CASE text = "" -> 0
    [] text = "1000" -> 10000
    [] text = "1500.5" -> 15005
    [] text = "-1" -> -10
    [] text = "3000" -> 30000
    [] text = "10001" -> 100010

\* settingsSchema.safeParse(values): min(0), max(10000), a pattern of at least
\* one character, a boolean flipHorizontal
settingsSchema(values) ==
  LET n == NumberTenths(values.cooldownTime)
  IN [success |-> /\ n >= 0 /\ n <= 10000 * 10
                  /\ Len(values.dataPattern) >= 1
                  /\ values.flipHorizontal \in {"true", "false"},
      data |-> [cooldownTenths |-> n, dataPattern |-> values.dataPattern,
                flipHorizontal |-> values.flipHorizontal = "true"]]

\* the number input has no step attribute: a value that is not a whole
\* number does not match the default step of 1
StepMismatch(text) == NumberTenths(text) % 10 # 0

\* the transform of the <video> element for the two flip settings:
\* `${flipHorizontal ? 'scaleY(-1)' : ''} ${flipVertical ? 'scaleX(-1)' : ''}`.trim() || 'none'
videoTransform(flipHorizontal, flipVertical) ==
  IF flipHorizontal /\ flipVertical THEN "scaleY(-1) scaleX(-1)"
  ELSE IF flipHorizontal THEN "scaleY(-1)"
  ELSE IF flipVertical THEN "scaleX(-1)"
  ELSE "none"

\* what a CSS transform does to the two axes: scaleX(-1) negates x,
\* scaleY(-1) negates y
CssScale(transform) ==
  CASE transform = "none" -> [x |-> 1, y |-> 1]
    [] transform = "scaleX(-1)" -> [x |-> -1, y |-> 1]
    [] transform = "scaleY(-1)" -> [x |-> 1, y |-> -1]
    [] transform = "scaleY(-1) scaleX(-1)" -> [x |-> -1, y |-> -1]

\* the dialog's trigger button
OpenDialog ==
  /\ ~dialogOpen
  /\ dialogOpen' = TRUE
  /\ formOp' = "open"
  /\ UNCHANGED << form, handed, videoStyle, cameraVars, serverVars, listVars, shotVars >>

\* the user edits a field
EditForm(values) ==
  /\ dialogOpen
  /\ values # form
  /\ form' = values
  /\ formOp' = "edit"
  /\ UNCHANGED << dialogOpen, handed, videoStyle, cameraVars, serverVars, listVars, shotVars >>

\* resetToDefaults: form.reset(DEFAULT_SETTINGS) of ScannerSettings
resetToDefaults ==
  /\ dialogOpen
  /\ form' = [cooldownTime |-> "3000", dataPattern |-> DefaultDataPattern,
              flipHorizontal |-> "false"]
  /\ formOp' = "defaults"
  /\ UNCHANGED << dialogOpen, handed, videoStyle, cameraVars, serverVars, listVars, shotVars >>

\* handleClose: the Cancel button
handleClose ==
  /\ dialogOpen
  /\ dialogOpen' = FALSE
  /\ formOp' = "cancel"
  /\ UNCHANGED << form, handed, videoStyle, cameraVars, serverVars, listVars, shotVars >>

\* the Save button: the browser may refuse to submit a form whose number
\* input mismatches its step (uaBlocks); otherwise form.handleSubmit runs the
\* resolver and calls onSubmit with the parsed data only when it succeeds
SubmitForm(uaBlocks) ==
  /\ dialogOpen
  /\ uaBlocks => StepMismatch(form.cooldownTime)
  /\ LET result == settingsSchema(form)
     IN IF uaBlocks
          THEN /\ formOp' = "blocked"
               /\ UNCHANGED << dialogOpen, handed, videoStyle >>
          ELSE IF ~result.success
            THEN /\ formOp' = "invalid"
                 /\ UNCHANGED << dialogOpen, handed, videoStyle >>
            ELSE /\ Len(handed) < MaxSubmits
                 /\ handed' = Append(handed, result.data)
                 \* setSettings(data) and the render that follows; the form has
                 \* no flipVertical field, so settings.flipVertical is undefined
                 /\ videoStyle' = videoTransform(result.data.flipHorizontal, FALSE)
                 /\ dialogOpen' = FALSE
                 /\ formOp' = "saved"
  /\ UNCHANGED << form, cameraVars, serverVars, listVars, shotVars >>

FormValues ==
  [cooldownTime : CooldownInputs, dataPattern : PatternInputs,
   flipHorizontal : {"undefined", "true", "false"}]

FormNext ==
  \/ OpenDialog
  \/ \E v \in FormValues : EditForm(v)
  \/ resetToDefaults
  \/ handleClose
  \/ \E b \in BOOLEAN : SubmitForm(b)

FormSpec == Init /\ [][FormNext]_vars

(* ============ the single-shot revision of the Camera ============ *)

\* isScanning becomes true while permission and stream are there
\* (initializeCamera's setIsScanning(true), or the button): the scanning
\* effect runs with a fresh closure, isMounted = true
ShotScanningEffect ==
  /\ ~shotScanning
  /\ shotRun < MaxShotRuns
  /\ shotScanning' = TRUE
  /\ shotRun' = shotRun + 1
  /\ shotMounted' = {shotRun + 1}
  /\ UNCHANGED << shotDecoding, shotPending, shotSaved, cameraVars, serverVars, listVars,
                  formVars >>

\* startScanning of run r after `await video.play()`: decodeFromVideoDevice
\* is called (nothing looks at isMounted before it)
ShotStartScanning(r) ==
  /\ r \in 1..shotRun
  /\ r \notin shotDecoding
  /\ shotDecoding' = shotDecoding \cup {r}
  /\ UNCHANGED << shotScanning, shotRun, shotMounted, shotPending, shotSaved, cameraVars,
                  serverVars, listVars, formVars >>

\* the decode callback of run r with a result, up to its await:
\* `if (result && isMounted)` then saveScan.mutateAsync({content, format})
\* is called and awaited; a callback of a cleaned-up run returns at the test
ShotDecodeCallback(r, text) ==
  /\ r \in shotDecoding
  /\ r \in shotMounted
  /\ Len(shotSaved) < MaxShotSaves
  /\ shotSaved' = Append(shotSaved, [run |-> r, content |-> text])
  /\ shotPending' = shotPending \cup {Len(shotSaved) + 1}
  /\ UNCHANGED << shotScanning, shotRun, shotMounted, shotDecoding, cameraVars, serverVars,
                  listVars, formVars >>

\* a pending mutateAsync settles. Resolved: the callback goes on with
\* setIsScanning(false), and the effect's cleanup sets isMounted = false.
\* Rejected: the callback throws and scanning stays on.
ShotSaveSettled(p, ok) ==
  /\ p \in shotPending
  /\ shotPending' = shotPending \ {p}
  /\ IF ok
       THEN /\ shotScanning' = FALSE
            /\ shotMounted' = {}
       ELSE UNCHANGED << shotScanning, shotMounted >>
  /\ UNCHANGED << shotRun, shotDecoding, shotSaved, cameraVars, serverVars, listVars,
                  formVars >>

\* handleCameraButton while scanning: setIsScanning(false), cleanup
ShotPause ==
  /\ shotScanning
  /\ shotScanning' = FALSE
  /\ shotMounted' = {}
  /\ UNCHANGED << shotRun, shotDecoding, shotPending, shotSaved, cameraVars, serverVars,
                  listVars, formVars >>

ShotNext ==
  \/ ShotScanningEffect
  \/ \E r \in 1..MaxShotRuns : ShotStartScanning(r)
  \/ \E r \in 1..MaxShotRuns, t \in Texts : ShotDecodeCallback(r, t)
  \/ \E p \in 1..MaxShotSaves, ok \in BOOLEAN : ShotSaveSettled(p, ok)
  \/ ShotPause

ShotSpec == Init /\ [][ShotNext]_vars

(* ======================= claims ======================= *)

\* C1: if a detection is accepted at time t while the configured cooldown
\* duration is d, no other detection is accepted strictly before t + d
\* (accepts of the live session: decode callbacks, toggles, settings changes).
C1_OneAcceptPerCooldownWindow ==
  \A i, j \in DOMAIN sinkLog :
    (i < j /\ ~sinkLog[i].disposed /\ ~sinkLog[j].disposed)
      => sinkLog[j].t >= sinkLog[i].t + sinkLog[i].d

ActiveSubs == {k \in DOMAIN subs : subs[k].st = "active"}
LiveStreams == {s \in DOMAIN streams : streams[s].live}

\* C2: at most one decoder subscription is active, and every active
\* subscription is the one scanningProcessRef refers to.
C2_SingleRegisteredSubscription ==
  mounted =>
    /\ Cardinality(ActiveSubs) <= 1
    /\ \A k \in ActiveSubs : scanningProcessRef = k

\* C3: after dispose every track of every stream the session acquired is
\* stopped, no decoder subscription is active and no cooldown timer is pending.
C3_DisposeReleasesEverything ==
  ~mounted =>
    /\ \A s \in SessionStreams : ~streams[s].live
    /\ ActiveSubs = {}
    /\ cooldownTimers = {}

\* C4: from any state, running the teardown twice in a row gives the state
\* the first run gave, and that state has zero active camera tracks.
C4_DisposeIdempotent ==
  LET once == cleanupResources(Res, NoStream, FALSE, FALSE)
      twice == cleanupResources(once, NoStream, FALSE, FALSE)
  IN /\ twice = once
     /\ \A s \in DOMAIN once.streams : ~once.streams[s].live

\* C5: when initialization fails after its stream was obtained, the error is
\* surfaced with every track of that stream stopped and no stream handle kept.
C5_FailedInitReleasesStream ==
  attempt.outcome = "failedAfterStream" =>
    /\ ~hasPermission
    /\ errorMsg # "none"
    /\ ~streams[attempt.media].live
    /\ stream = NoStream

\* C6: after a rejected permission request the session is in Error, holds no
\* stream, no live track and no decoder subscription, and dispose changes nothing.
C6_PermissionDeniedIsClean ==
  (mounted /\ attempt.outcome = "denied") =>
    /\ ~hasPermission /\ ~isInitializing /\ errorMsg # "none"
    /\ stream = NoStream
    /\ LiveStreams = {}
    /\ \A k \in DOMAIN subs : subs[k].st \notin {"starting", "active"}
    /\ cleanupResources(Res, NoStream, FALSE, FALSE) = Res

\* C7: a stream delivered after the session was torn down does not stay live
\* and is never attached or decoded.
C7_LateStreamIsStopped ==
  \A s \in SessionStreams :
    streams[s].late =>
      /\ ~streams[s].live
      /\ srcObject # s
      /\ \A k \in DOMAIN subs : subs[k].cStream # s

\* C8: after dispose no decode callback reaches the Scan Sink, arms the
\* cooldown or creates a timer.
C8_NoAcceptAfterDispose ==
  [][~mounted => /\ sinkLog' = sinkLog
                 /\ scans' = scans
                 /\ (isCoolingDownRef' => isCoolingDownRef)
                 /\ cooldownTimers' \subseteq cooldownTimers]_vars

Paused == mounted /\ hasPermission /\ ~isScanning

\* C9: while the intent is pause no decoder subscription is started or
\* active, and the session's stream keeps its handle and its tracks.
C9_PausedMeansNoDecoder ==
  /\ [](Paused => ActiveSubs = {})
  /\ [][(Paused /\ Paused')
          => /\ Len(subs') = Len(subs)
             /\ stream' = stream
             /\ streams'[stream] = streams[stream]]_vars

\* C10 (the part a finite run decides): the subscription started by a resume
\* decodes from the stream the session already held open.
C10_ResumeDecodesOpenStream ==
  \A k \in ActiveSubs :
    subs[k].cause = "toggle" =>
      /\ subs[k].src = subs[k].cStream
      /\ streams[subs[k].src].owner = "session"

\* the session holds the camera: Active-Scanning or Active-Paused
Active == mounted /\ hasPermission /\ stream # NoStream

\* C11: a settings change while the session is active issues no camera access
\* request and keeps the session's stream: its handle, its tracks and its
\* attachment to the video element; the decoder subscription is replaced, so
\* the new one is the only one left, and it decodes the stream already open.
C11_ReconfigureKeepsStream ==
  /\ [][(Active /\ settingsChanges' # settingsChanges)
          => /\ gumCount' = gumCount
             /\ stream' = stream
             /\ srcObject' = srcObject
             /\ streams'[stream] = streams[stream]
             /\ isScanning =>
                  \A k \in DOMAIN subs' :
                    subs'[k].st \in {"starting", "active"} => k = Len(subs) + 1]_vars
  /\ [](\A k \in ActiveSubs :
          subs[k].cause = "settings" => subs[k].src = subs[k].cStream)

\* C12: once a settings change has been applied, every detection the live
\* session accepts is saved with the configured dataPattern and arms the
\* cooldown with the configured duration: the accepting subscription is bound
\* to the current settings, also when its start was scheduled before the change.
C12_AcceptsUseCurrentSettings ==
  [][(mounted /\ settingsChanges > 0 /\ sinkLog' # sinkLog)
       => LET a == sinkLog'[Len(sinkLog')]
          IN /\ subs[a.sub].cSettings = settings
             /\ scans'[1].pattern = settings.dataPattern
             /\ a.armed = settings.cooldownTime]_vars

\* a decode callback ran in the step and took a detection past the gate
AcceptedFrame == frame'.outcome \in Texts /\ ~frame'.gate

\* C13: a detection that passes the gate makes exactly one Scan Sink call,
\* with the detection's text; the record it writes carries that text and the
\* format, in front of the records already stored (nothing is stored when the
\* write is refused); a detection suppressed by the cooldown, like any other
\* callback, makes no call and stores nothing.
C13_OneSinkCallPerAccept ==
  [][frame' # NoFrame
       => IF AcceptedFrame
            THEN /\ Len(sinkLog') = Len(sinkLog) + 1
                 /\ sinkLog'[Len(sinkLog')].content = frame'.outcome
                 /\ IF frame'.written
                      THEN /\ Len(scans') = Len(scans) + 1
                           /\ scans'[1].content = frame'.outcome
                           /\ scans'[1].format = "PDF417"
                           /\ \A i \in DOMAIN scans : scans'[i + 1] = scans[i]
                      ELSE scans' = scans
            ELSE scans' = scans /\ sinkLog' = sinkLog]_vars

C13_Witness ==
  /\ frame.outcome \in Texts /\ frame.gate
  /\ Len(scans) = MaxScans

\* C14: accepting a detection changes the cooldown gate and the Scan Sink
\* only: the scanning intent, the permission, the stream with its tracks and
\* attachment, the decoder and its subscriptions stay as they were.
C14_AcceptKeepsScanning ==
  [][(frame' # NoFrame /\ AcceptedFrame)
       => /\ isScanning' = isScanning
          /\ hasPermission' = hasPermission
          /\ stream' = stream /\ streams' = streams /\ srcObject' = srcObject
          /\ readerRef' = readerRef
          /\ subs' = subs /\ scanningProcessRef' = scanningProcessRef
          /\ startTimers' = startTimers
          /\ isCoolingDownRef' /\ sinkLog' # sinkLog]_vars

C14_Witness ==
  /\ frame.outcome \in Texts /\ ~frame.gate
  /\ mounted /\ hasPermission /\ isScanning
  /\ scanningProcessRef \in ActiveSubs
  /\ streams[stream].live

\* C15: with the last accept at t under the configured duration d, a detection
\* delivered to the live session later than t + d is not suppressed, and one
\* delivered before t + d is.
C15_GateReopens ==
  (mounted /\ sinkLog # << >> /\ frame.outcome \in Texts)
    => LET a == sinkLog[Len(sinkLog)]
       IN /\ frame.gate => now <= a.t + a.d
          /\ (~frame.gate /\ Len(sinkLog) > 1)
               => now >= sinkLog[Len(sinkLog) - 1].t + sinkLog[Len(sinkLog) - 1].d

\* C16: at most one cooldown timer is pending, and a pending timer is the one
\* cooldownTimerRef holds, with the gate armed: a timer that was replaced or
\* cancelled is not pending, so it cannot fire.
C16_SingleCooldownTimer ==
  /\ Cardinality(cooldownTimers) <= 1
  /\ \A t \in cooldownTimers : t.id = cooldownTimerRef /\ isCoolingDownRef

C16_Witness ==
  /\ Len(sinkLog) = MaxScans
  /\ cooldownTimers # {}
  /\ sinkLog[1].t < sinkLog[MaxScans].t

\* C17: a settings change leaves a pending cooldown timer and the gate as they
\* are, and every arm of the live session after a change schedules the expiry
\* the configured duration ahead.
C17_DurationChangeAppliesToNextArm ==
  [][/\ settingsChanges' # settingsChanges
          => /\ cooldownTimers' = cooldownTimers
             /\ cooldownTimerRef' = cooldownTimerRef
             /\ isCoolingDownRef' = isCoolingDownRef
     /\ (mounted /\ settingsChanges > 0)
          => \A t \in cooldownTimers' \ cooldownTimers :
               t.due = now + settings.cooldownTime]_vars

C19_NoResultChangesNothing ==
  [][(frame' # NoFrame /\ frame'.outcome \in {"error", "empty"})
       => /\ toasts' = 0
          /\ UNCHANGED << now, cameraApi, mounted, hasPermission, isInitializing,
                          stream, settings, isScanning, readerRef, scanningProcessRef,
                          cooldownTimerRef, cooldownTimers, isCoolingDownRef,
                          srcObject, streams, subs, startTimers, init, scans,
                          sinkLog, errorMsg, attempt, gumCount, nextTimer,
                          settingsChanges >>]_vars

C19_Witness ==
  /\ frame.outcome \in {"error", "empty"}
  /\ mounted /\ isScanning /\ isCoolingDownRef
  /\ scans # << >>

\* C20: a decoder error that says the stream or device is lost takes the
\* session to Error (permission dropped, message surfaced, no decoder left);
\* any other decoder error leaves permission, intent, subscriptions and the
\* message as they were.
C20_StreamLostRaisesError ==
  [][(mounted /\ frame' # NoFrame)
       => /\ frame'.outcome = "lost"
            => /\ ~hasPermission'
               /\ errorMsg' # "none"
               /\ \A k \in DOMAIN subs' : subs'[k].st # "active"
          /\ frame'.outcome = "error"
            => /\ hasPermission' = hasPermission /\ isScanning' = isScanning
               /\ subs' = subs /\ errorMsg' = errorMsg]_vars

\* some decodeFromConstraints call was rejected in the step
DecoderStartFailed ==
  \E k \in DOMAIN subs : subs[k].st = "starting" /\ subs'[k].st = "failed"

\* C21: when a decoder start fails the session enters Error with everything
\* torn down: no track of any stream is live, no decoder subscription is
\* active, and the session does not present itself as scanning.
C21_DecoderStartFailureTearsDown ==
  [][(mounted /\ DecoderStartFailed)
       => /\ errorMsg' # "none"
          /\ \A s \in DOMAIN streams' : ~streams'[s].live
          /\ \A k \in DOMAIN subs' : subs'[k].st # "active"
          /\ ~(hasPermission' /\ isScanning')]_vars

\* a failure became visible in the step: an initialization attempt ended in
\* an error, or a decoder start was rejected
FailureOccurred ==
  \/ /\ attempt' # attempt
     /\ attempt'.outcome \in {"unsupported", "denied", "failedAfterStream"}
  \/ DecoderStartFailed

\* C23: every failure occurrence raises exactly one user notification, the
\* component's own toast and the onError handler's toast counted together,
\* and a step without a failure raises none.
C23_OneNotificationPerFailure ==
  [][IF FailureOccurred THEN toasts' = 1 ELSE toasts' = 0]_vars

\* C22: when the Scan Sink refuses the write of an accepted detection, the
\* failure is reported to the user, the session keeps its intent, permission,
\* stream and decoder subscriptions, the cooldown of that accept is armed for
\* its full duration, and the session makes no second call for the barcode.
C22_SinkFailureReported ==
  [][(mounted /\ frame' # NoFrame /\ AcceptedFrame /\ ~frame'.written)
       => /\ toasts' >= 1
          /\ isScanning' = isScanning /\ hasPermission' = hasPermission
          /\ stream' = stream /\ streams' = streams
          /\ subs' = subs /\ scanningProcessRef' = scanningProcessRef
          /\ isCoolingDownRef'
          /\ \E t \in cooldownTimers' :
               /\ t.id = cooldownTimerRef'
               /\ t.due = now + sinkLog'[Len(sinkLog')].armed
          /\ Len(sinkLog') = Len(sinkLog) + 1
          /\ scans' = scans]_vars

RECURSIVE SumX(_), SumY(_)
SumX(p) == IF p = << >> THEN 0 ELSE Head(p).x + SumX(Tail(p))
SumY(p) == IF p = << >> THEN 0 ELSE Head(p).y + SumY(Tail(p))

\* the unweighted centroid of the points lies in the closed rectangle of the
\* target region (both sides multiplied by the number of points)
CentroidInTarget(p) ==
  /\ Len(p) > 0
  /\ ScanArea.left * Len(p) <= SumX(p)
  /\ SumX(p) <= (ScanArea.left + ScanArea.width) * Len(p)
  /\ ScanArea.top * Len(p) <= SumY(p)
  /\ SumY(p) <= (ScanArea.top + ScanArea.height) * Len(p)

\* C26: a detection is accepted (reaches the Scan Sink) only if the centroid
\* of its result points lies in the closed rectangle of the target region;
\* for the region (100,100,200,100) a centroid (50,50) is rejected.
C26_AcceptOnlyInTarget ==
  [][(frame' # NoFrame /\ sinkLog' # sinkLog)
       => CentroidInTarget(frame'.points)]_vars

\* C27: a decoded result with fewer than 2 result points is never accepted:
\* no Scan Sink call, no record, no cooldown, and no error is raised.
C27_TooFewPointsRejected ==
  [][(frame' # NoFrame /\ frame'.outcome \in Texts /\ Len(frame'.points) < 2)
       => /\ sinkLog' = sinkLog /\ scans' = scans
          /\ isCoolingDownRef' = isCoolingDownRef
          /\ cooldownTimers' = cooldownTimers
          /\ toasts' = 0 /\ errorMsg' = errorMsg]_vars

\* the session is in Error: the last initialization attempt failed and no new
\* one is running
InError ==
  /\ mounted /\ ~hasPermission /\ ~isInitializing
  /\ attempt.outcome \in {"unsupported", "denied", "failedAfterStream"}

\* C25: Error is terminal until the user retries: in Error no decoder start
\* is pending or running, and every step taken in Error other than a press of
\* Enable Camera issues no camera access request, opens no stream, schedules
\* no delayed start and starts no decoder.
C25_ErrorIsTerminal ==
  /\ [](InError => /\ startTimers = {}
                   /\ \A k \in DOMAIN subs : subs[k].st \notin {"starting", "active"})
  /\ [][(InError /\ ~isInitializing')
          => /\ gumCount' = gumCount
             /\ Len(streams') = Len(streams)
             /\ Len(subs') = Len(subs)
             /\ startTimers' = startTimers]_vars

\* Error with the scanning intent on and a stale stream handle, after the
\* settings were changed and the start delay has passed
C25_Witness ==
  /\ InError /\ isScanning /\ stream # NoStream
  /\ settingsChanges > 0 /\ settings # DEFAULT_SETTINGS
  /\ now >= StartDelay

\* C24: every initialization attempt terminates: once the camera is being
\* initialized, the session eventually leaves Initializing with the camera
\* running or in Error (or the component is unmounted).
C24_InitializationTerminates ==
  (mounted /\ isInitializing)
     ~> (~mounted \/ (~isInitializing /\ (hasPermission \/ InError)))

\* the step handled a create-scan request
CreateCall == call' # call /\ call'.op = "create"

\* C28: every createScan call stores a record and returns it; the id is
\* larger than the id of every record stored before (it is the counter, which
\* the call advances), and the record's content, format and pattern are the
\* input's.
C28_CreateAssignsFreshId ==
  [][(CreateCall /\ call'.status = 200)
       => /\ Len(memScans') = Len(memScans) + 1
          /\ memScans'[Len(memScans')] = call'.json
          /\ \A i \in DOMAIN memScans :
               memScans'[i] = memScans[i] /\ memScans[i].id < call'.json.id
          /\ call'.json.content = call'.body.content
          /\ call'.json.format = call'.body.format
          /\ call'.json.pattern = call'.body.pattern
          /\ call'.json.id = currentId /\ currentId' = currentId + 1]_vars

\* a second record was created and returned
C28_Witness ==
  /\ call.op = "create" /\ call.status = 200
  /\ Len(memScans) >= 2
  /\ call.json.id = 2

\* C29: a create-scan request whose payload fails validation is answered
\* with the validation failure, creates no record, consumes no id and leaves
\* every recent-scans list as it was.
C29_InvalidCreateChangesNothing ==
  [][(CreateCall /\ ~safeParse(call'.body).success)
       => /\ call'.status = 400
          /\ memScans' = memScans
          /\ currentId' = currentId
          /\ \A n \in 0..DefaultLimit :
               getRecentScans(memScans', n) = getRecentScans(memScans, n)]_vars

\* a request with empty content was refused while a record was stored
C29_Witness ==
  /\ call.op = "create" /\ call.body.content = "" /\ call.status = 400
  /\ Len(memScans) >= 1

\* a is newer than b: created at a later time, or at the same time and later
Newer(a, b) ==
  \/ a.timestamp > b.timestamp
  \/ a.timestamp = b.timestamp /\ a.id > b.id

\* C30: a list request with limit n (10 when the request gives none) returns
\* exactly the min(n, stored count) newest scans, newest first: no returned
\* scan is newer than one before it and no omitted scan is newer than a
\* returned one, also among scans of one timestamp.
C30_RecentIsNewestFirst ==
  call.op = "list"
    => LET n == IF call.query.given THEN call.query.n ELSE 10
           L == call.json
       IN /\ Len(L) = IF n < Len(memScans) THEN n ELSE Len(memScans)
          /\ \A i \in DOMAIN L : \E k \in DOMAIN memScans : memScans[k] = L[i]
          /\ \A i, j \in DOMAIN L : i < j => ~Newer(L[j], L[i])
          /\ \A k \in DOMAIN memScans :
               (\A i \in DOMAIN L : L[i] # memScans[k])
                 => \A i \in DOMAIN L : ~Newer(memScans[k], L[i])

\* C31: clear scans removes every stored scan and succeeds whatever the store
\* held, an empty store included: after the server's clear the storage is empty
\* and a list request that follows returns the empty list; after the list's
\* clear localStorage holds no scan and the list on screen is empty, and so is
\* the list a following mount reads.
C31_ClearEmptiesTheStore ==
  /\ [](call.op = "clear"
          => /\ call.status = 200
             /\ memScans = << >>
             /\ \A q \in Queries : getRecentScans(memScans, LimitOf(q)) = << >>)
  /\ [](call.op = "clearList" => scans = << >> /\ listScans = << >>)
  /\ [][(call.op = "clear" /\ call'.op = "list") => call'.json = << >>]_vars
  /\ [][(call.op = "clearList" /\ call'.op = "mountList") => listScans' = << >>]_vars

\* the server's store was cleared after records had been created
C31_Witness ==
  /\ call.op = "clear" /\ currentId > 2

\* the server's store was cleared when it had never held a record
C31_WitnessEmpty ==
  /\ call.op = "clear" /\ currentId = 1

\* C32: every configuration handed to onSettingsChange has a cooldown time
\* that is a whole number of milliseconds from 0 to 10000 and a non-empty
\* pattern; a submission that is not accepted and a Cancel hand nothing over,
\* leave the session's settings as they were and restart no decoder.
C32_FormHandsValidSettings ==
  /\ [](\A i \in DOMAIN handed :
          /\ handed[i].cooldownTenths % 10 = 0
          /\ handed[i].cooldownTenths >= 0
          /\ handed[i].cooldownTenths <= 10000 * 10
          /\ handed[i].dataPattern # "")
  /\ [][(formOp' # formOp /\ formOp' \in {"invalid", "blocked", "cancel"})
          => /\ handed' = handed
             /\ settings' = settings
             /\ subs' = subs /\ startTimers' = startTimers]_vars

\* C33: no decoder subscription is started, and no delayed start is pending,
\* before the video of the session's stream reported ready metadata and began
\* playing: whenever a subscription or a pending start exists, the latest
\* initialization ended successfully and the subscription was started for the
\* stream of that initialization.
C33_NoDecoderBeforeVideoReady ==
  /\ (startTimers # {} \/ subs # << >>) => attempt.outcome = "ok"
  /\ \A k \in DOMAIN subs : subs[k].cStream = attempt.media
  /\ \A t \in startTimers : t.cStream = attempt.media

\* a decoder runs in a session that was initialized at the second attempt
C33_Witness ==
  /\ gumCount = 2 /\ attempt.outcome = "ok"
  /\ \E k \in DOMAIN subs : subs[k].st = "active" /\ subs[k].cause = "init"

\* C34: with the horizontal flip on (and the vertical flip off) the video is
\* mirrored along the horizontal axis only: x is negated and y is not; with
\* both flips off no transform is applied.
C34_HorizontalFlipNegatesX ==
  handed # << >>
    => IF handed[Len(handed)].flipHorizontal
         THEN CssScale(videoStyle) = [x |-> -1, y |-> 1]
         ELSE videoStyle = "none"

\* C35: in the single-shot revision one scanning activation (one run of the
\* scanning effect) hands at most one scan to the Scan Sink, also when
\* further decode callbacks arrive while the first save is pending.
C35_OneScanPerActivation ==
  \A r \in 1..shotRun :
    Cardinality({i \in DOMAIN shotSaved : shotSaved[i].run = r}) <= 1

\* C36: in every reachable state the cooldown flag and the cooldown timer
\* agree: isCoolingDownRef is true exactly when cooldownTimerRef is set, and
\* cooldownTimerRef is set exactly when its expiry timer is pending, so an
\* armed gate always has a timer left to disarm it.
C36_FlagAndTimerAgree ==
  /\ isCoolingDownRef <=> cooldownTimerRef # NoTimer
  /\ cooldownTimerRef # NoTimer <=> \E t \in cooldownTimers : t.id = cooldownTimerRef
  /\ \A t \in cooldownTimers : t.id = cooldownTimerRef

\* the gate is armed a second time, by an accept that follows an expiry
C36_Witness ==
  /\ isCoolingDownRef
  /\ Len(sinkLog) = 2
  /\ \E t \in cooldownTimers : t.id = cooldownTimerRef /\ t.id > 1

\* C37: at most one camera initialization is in flight: while one is running
\* the button's first branch is disabled (isInitializing is set, permission is
\* not granted), and a press made while permission is granted issues no
\* camera access request (the decoder start it schedules opens no stream).
C37_OneCameraRequestInFlight ==
  /\ init.pc # "idle" => (~hasPermission /\ (mounted => isInitializing))
  /\ \A k \in DOMAIN subs :
       (subs[k].cause = "toggle" /\ subs[k].st = "active")
         => streams[subs[k].src].owner = "session"

\* C38: in the local-storage Scan Sink a save puts the new scan at the head
\* of the persisted list and keeps the scans stored before in their order, so
\* the list is newest-first, and every stored scan has an id of its own.
C38_NewestFirstDistinctIds ==
  /\ [][scans' # scans => (Len(scans') = Len(scans) + 1 /\ Tail(scans') = scans)]_vars
  /\ [](\A i, j \in DOMAIN scans : i < j => scans[i].timestamp >= scans[j].timestamp)
  /\ [](\A i, j \in DOMAIN scans : i # j => scans[i].id # scans[j].id)

====
